---- MODULE Spec2Model ----
(***************************************************************************)
(* Model of the bulk order import route, app/routes/app._index.jsx: the    *)
(* `action` handler with its two intents, "process" (Preview: parse the    *)
(* uploaded grid, look every row up in the catalog) and "create" (Confirm: *)
(* filter the round-tripped snapshot, call the order-creation service,     *)
(* write one history row).  Every request runs in a slot; a slot is        *)
(* suspended at each awaited external call, so requests interleave there.  *)
(***************************************************************************)
EXTENDS Integers, Sequences, FiniteSets, TLC

\* ------------------------------------------------------------------ bounds

\* Requests started in one behaviour.
MaxRequests == 2

\* Rows of a round-tripped snapshot, where every snapshot is drawn.
MaxSnapRows == 2

\* ------------------------------------------------------- JavaScript values

\* A JSON / JavaScript value: null, a boolean, a number or a string.
JNull == [k |-> "null", b |-> FALSE, n |-> 0, s |-> ""]

JBool(b) == [k |-> "bool", b |-> b, n |-> 0, s |-> ""]

JNum(n) == [k |-> "num", b |-> FALSE, n |-> n, s |-> ""]

JStr(s) == [k |-> "str", b |-> FALSE, n |-> 0, s |-> s]

\* A JavaScript number that is either NaN or the integer n.
NaN == [nan |-> TRUE, n |-> 0]

Num(n) == [nan |-> FALSE, n |-> n]

\* JavaScript truthiness: null, false, 0 and "" are falsy.
Truthy(v) ==
    CASE v.k = "null" -> FALSE
      [] v.k = "bool" -> v.b
      [] v.k = "num"  -> v.n # 0
      [] v.k = "str"  -> v.s # ""

\* Number(s) of a string: blank strings are 0, decimal numerals their value,
\* anything else NaN.
StringToNumber(s) ==
    CASE s = ""   -> Num(0)
      [] s = " "  -> Num(0)
      [] s = "0"  -> Num(0)
      [] s = "1"  -> Num(1)
      [] s = "2"  -> Num(2)
      [] s = "3"  -> Num(3)
      [] s = "5"  -> Num(5)
      [] s = "-1" -> Num(-1)
      [] OTHER    -> NaN

\* Number(v).
Number(v) ==
    CASE v.k = "null" -> Num(0)
      [] v.k = "bool" -> Num(IF v.b THEN 1 ELSE 0)
      [] v.k = "num"  -> Num(v.n)
      [] v.k = "str"  -> StringToNumber(v.s)

\* Number(v || 0).
NumberOrZero(v) == IF Truthy(v) THEN Number(v) ELSE Num(0)

\* String(v).
String(v) ==
    CASE v.k = "null" -> "null"
      [] v.k = "str"  -> v.s
      [] v.k = "num"  -> ToString(v.n)
      [] v.k = "bool" -> IF v.b THEN "true" ELSE "false"

\* String(v || "").
StringOrEmpty(v) ==
    IF ~Truthy(v) THEN ""
    ELSE CASE v.k = "str"  -> v.s
           [] v.k = "num"  -> ToString(v.n)
           [] v.k = "bool" -> "true"

\* s.trim(), on the strings the model draws.
Trim(s) ==
    CASE s = " "        -> ""
      [] s = " ABC123 " -> "ABC123"
      [] s = " sku "    -> "sku"
      [] s = " Acme "   -> "Acme"
      [] OTHER          -> s

\* s.toLowerCase(), on the header cells the model draws.
ToLowerCase(s) ==
    CASE s = "SKU"      -> "sku"
      [] s = "Quantity" -> "quantity"
      [] s = "QTY"      -> "qty"
      [] s = "Qty"      -> "qty"
      [] s = "SKU Code" -> "sku code"
      [] s = "Order Qty" -> "order qty"
      [] OTHER          -> s

\* ------------------------------------------------------------- row parser

\* The row pushed at parse time, and the shape of every preview row.
Row(sku, productName, exist, availableQuantity, quantityRequested, fulfilledQuantity, status, variantId) ==
    [sku |-> sku, productName |-> productName, exist |-> exist,
     availableQuantity |-> availableQuantity,
     quantityRequested |-> quantityRequested,
     fulfilledQuantity |-> fulfilledQuantity,
     status |-> status, variantId |-> variantId]

\* String(h).trim().toLowerCase() of every header cell.
HeaderRow(rows) ==
    [i \in 1..Len(rows[1]) |-> ToLowerCase(Trim(String(rows[1][i])))]

\* Mutant of IsSkuHeader: a header cell that contains the word matches.
IsSkuHeaderContains(h) == h \in {"sku", "sku code"}

\* The two predicates handed to headerRow.findIndex.
IsSkuHeader(h) == h = "sku"

IsQtyHeader(h) == h = "quantity" \/ h = "qty"

\* findIndex over a set of matching positions: the first one (counted from 1),
\* or 0 where JavaScript answers -1.
FirstIndex(matches) ==
    IF matches = {} THEN 0
    ELSE CHOOSE i \in matches : \A j \in matches : i <= j

SkuIndex(rows) ==
    FirstIndex({i \in 1..Len(rows[1]) : IsSkuHeader(HeaderRow(rows)[i])})

QtyIndex(rows) ==
    FirstIndex({i \in 1..Len(rows[1]) : IsQtyHeader(HeaderRow(rows)[i])})

\* row[i], undefined (modelled as null) beyond the row's end.
Cell(row, i) == IF i \in 1..Len(row) THEN row[i] ELSE JNull

\* One data row of the grid: TRUE when the parse loop keeps it.
KeepsRow(row, skuIndex, qtyIndex) ==
    LET sku == Trim(StringOrEmpty(Cell(row, skuIndex)))
        quantityRequested == NumberOrZero(Cell(row, qtyIndex))
    IN  /\ sku # ""
        /\ ~quantityRequested.nan
        /\ quantityRequested.n > 0

\* The pending row the parse loop pushes for a kept data row.
ParsedRow(row, skuIndex, qtyIndex) ==
    Row(Trim(StringOrEmpty(Cell(row, skuIndex))), "", JBool(FALSE), 0,
        NumberOrZero(Cell(row, qtyIndex)).n, JNum(0), "pending", JNull)

\* The parse loop over rows.slice(1).
RECURSIVE ParseRows(_, _, _, _)
ParseRows(rows, i, skuIndex, qtyIndex) ==
    IF i > Len(rows) THEN <<>>
    ELSE IF KeepsRow(rows[i], skuIndex, qtyIndex)
         THEN <<ParsedRow(rows[i], skuIndex, qtyIndex)>>
                \o ParseRows(rows, i + 1, skuIndex, qtyIndex)
         ELSE ParseRows(rows, i + 1, skuIndex, qtyIndex)

ParsedRows(rows) == ParseRows(rows, 2, SkuIndex(rows), QtyIndex(rows))

\* ---------------------------------------------------- inventory reconciler

\* productName of a row without a catalog entry.
Placeholder == "* * * * * * *"

\* name.replace(" - Default Title", ""), on the names the catalog serves.
StripDefaultTitle(name) ==
    CASE name = "Widget - Default Title" -> "Widget"
      [] OTHER                           -> name

\* variantNode.displayName || variantNode.product?.title || `SKU ${sku}`,
\* with the boilerplate suffix removed.
ProductName(variantNode, sku) ==
    StripDefaultTitle(
        IF Truthy(variantNode.displayName) THEN variantNode.displayName.s
        ELSE IF Truthy(variantNode.title) THEN variantNode.title.s
        ELSE "SKU " \o sku)

\* quantities.find((q) => q.name === "available"): the first such entry, or
\* an entry named "" where find answers undefined.
RECURSIVE AvailableEntry(_, _)
AvailableEntry(quantities, i) ==
    IF i > Len(quantities) THEN [name |-> "", quantity |-> JNull]
    ELSE IF quantities[i].name = "available" THEN quantities[i]
         ELSE AvailableEntry(quantities, i + 1)

\* Mutant of LevelAvailable: a level below zero counts as zero.
LevelAvailableFloored(edge) ==
    IF ~edge.node THEN 0
    ELSE LET availableEntry == AvailableEntry(edge.quantities, 1)
         IN  IF availableEntry.name = "available" /\ availableEntry.quantity.k = "num"
                /\ availableEntry.quantity.n > 0
             THEN availableEntry.quantity.n
             ELSE 0

\* What one inventory level adds to totalAvailable.
LevelAvailable(edge) ==
    IF ~edge.node THEN 0
    ELSE LET availableEntry == AvailableEntry(edge.quantities, 1)
         IN  IF availableEntry.name = "available" /\ availableEntry.quantity.k = "num"
             THEN availableEntry.quantity.n
             ELSE 0

\* The loop over levelEdges that sums totalAvailable.
RECURSIVE TotalAvailable(_, _)
TotalAvailable(levelEdges, i) ==
    IF i > Len(levelEdges) THEN 0
    ELSE LevelAvailable(levelEdges[i]) + TotalAvailable(levelEdges, i + 1)

\* Mutant of Classify: the shortage test ahead of the no-stock test.
ClassifyShortageFirst(quantityRequested, totalAvailable) ==
    IF quantityRequested > totalAvailable THEN <<totalAvailable, "partial">>
    ELSE IF totalAvailable <= 0 THEN <<0, "no stock">>
    ELSE <<quantityRequested, "ok">>

\* The three-way classification of a matched row: <<fulfilledQuantity, status>>.
Classify(quantityRequested, totalAvailable) ==
    IF totalAvailable <= 0 THEN <<0, "no stock">>
    ELSE IF quantityRequested > totalAvailable THEN <<totalAvailable, "partial">>
    ELSE <<quantityRequested, "ok">>

\* Mutant of NotFoundRow: a not-found row that keeps the parse-time status.
NotFoundRowKeepsStatus(row) ==
    [row EXCEPT !.exist = JBool(FALSE), !.productName = Placeholder,
                !.availableQuantity = 0, !.fulfilledQuantity = JNum(0),
                !.variantId = JNull]

\* Mutant of NotFoundRow: a not-found row that keeps the parse-time name.
NotFoundRowBlankName(row) ==
    [row EXCEPT !.exist = JBool(FALSE),
                !.availableQuantity = 0, !.fulfilledQuantity = JNum(0),
                !.status = "sku not found", !.variantId = JNull]

\* The row pushed when the catalog has no entry for the SKU.
NotFoundRow(row) ==
    [row EXCEPT !.exist = JBool(FALSE), !.productName = Placeholder,
                !.availableQuantity = 0, !.fulfilledQuantity = JNum(0),
                !.status = "sku not found", !.variantId = JNull]

\* Mutant of ErrorRow: a catch branch that promises the requested quantity.
ErrorRowFulfilsRequested(row) ==
    [row EXCEPT !.exist = JBool(FALSE), !.productName = Placeholder,
                !.availableQuantity = 0,
                !.fulfilledQuantity = JNum(row.quantityRequested),
                !.status = "error", !.variantId = JNull]

\* The row pushed by the catch branch of the lookup.
ErrorRow(row) ==
    [row EXCEPT !.exist = JBool(FALSE), !.productName = Placeholder,
                !.availableQuantity = 0, !.fulfilledQuantity = JNum(0),
                !.status = "error", !.variantId = JNull]

\* Mutant of MatchedRow: a matched row that leaves variantId as parsed.
MatchedRowWithoutVariantId(row, variantNode) ==
    LET totalAvailable == TotalAvailable(variantNode.levelEdges, 1)
        c == Classify(row.quantityRequested, totalAvailable)
    IN  [row EXCEPT !.exist = JBool(TRUE),
                    !.productName = ProductName(variantNode, row.sku),
                    !.availableQuantity = totalAvailable,
                    !.fulfilledQuantity = JNum(c[1]),
                    !.status = c[2]]

\* The row pushed for a matched catalog entry.
MatchedRow(row, variantNode) ==
    LET totalAvailable == TotalAvailable(variantNode.levelEdges, 1)
        c == Classify(row.quantityRequested, totalAvailable)
    IN  [row EXCEPT !.exist = JBool(TRUE),
                    !.productName = ProductName(variantNode, row.sku),
                    !.availableQuantity = totalAvailable,
                    !.fulfilledQuantity = JNum(c[1]),
                    !.status = c[2],
                    !.variantId = variantNode.id]

\* The body of the enrichment loop for one row, given what the catalog call
\* did: it threw (reply.kind = "throw"), or answered with a JSON body whose
\* data.productVariants.edges is reply.edges (empty when data is absent).
EnrichRow(row, reply) ==
    IF reply.kind = "throw" THEN ErrorRow(row)
    ELSE IF Len(reply.edges) = 0 THEN NotFoundRow(row)
    ELSE MatchedRow(row, reply.edges[1])

\* Mutant of EnrichStep: a catch branch that logs the failure and pushes no row.
EnrichStepSkipsFailed(enrichedRows, row, reply) ==
    IF reply.kind = "throw" THEN enrichedRows
    ELSE Append(enrichedRows, EnrichRow(row, reply))

\* Mutant of EnrichStep: the new row is put in front of the rows before it.
EnrichStepPrepends(enrichedRows, row, reply) == <<EnrichRow(row, reply)>> \o enrichedRows

\* Mutant of EnrichStep: a row whose SKU an earlier row was already promised
\* stock for gets none.
EnrichStepSharesStock(enrichedRows, row, reply) ==
    LET e == EnrichRow(row, reply)
        promised == \E i \in 1..Len(enrichedRows) :
                        enrichedRows[i].sku = row.sku /\ enrichedRows[i].fulfilledQuantity.n > 0
    IN  Append(enrichedRows,
               IF promised /\ e.exist = JBool(TRUE)
               THEN [e EXCEPT !.fulfilledQuantity = JNum(0), !.status = "no stock"]
               ELSE e)

\* One step of the enrichment loop: enrichedRows after the row is looked up.
EnrichStep(enrichedRows, row, reply) == Append(enrichedRows, EnrichRow(row, reply))

\* ------------------------------------------------------------------ state

\* Two requests can be in flight at once.
Slots == {1, 2}

VARIABLES
    pc,        \* pc[r]: where slot r's request is suspended
    local,     \* local[r]: the local variables of slot r's request
    outcome,   \* outcome[r]: what slot r's request returned (or threw)
    history,   \* the BulkOrderUpload table, in insertion order
    ocLog,     \* every DraftOrderCreate call issued, with the service's answer
    dbLog,     \* every db.bulkOrderUpload.create attempted
    started    \* number of requests started so far

vars == <<pc, local, outcome, history, ocLog, dbLog, started>>

\* The values returned by the action, as one record shape.
Outcome(mode, error, customerName, customerId, previewRows, location) ==
    [mode |-> mode, error |-> error, customerName |-> customerName,
     customerId |-> customerId, previewRows |-> previewRows,
     location |-> location]

NoOutcome == Outcome("none", "", "", "", <<>>, "")

ErrorOutcome(error, customerName, customerId, previewRows) ==
    Outcome("error", error, customerName, customerId, previewRows, "")

\* { mode: "preview", customerName, customerId, previewRows: enrichedRows }
PreviewOutcome(customerName, customerId, enrichedRows) ==
    Outcome("preview", "", customerName, customerId, enrichedRows, "")

\* The three ids of the business-account context, all null when unresolved.
NoB2BContext == [companyId |-> JNull, companyLocationId |-> JNull, companyContactId |-> JNull]

NoDraftOrder == [id |-> JNull, legacyResourceId |-> JNull, name |-> JNull]

\* The locals of a slot with no request in it.
IdleLocal ==
    [rid |-> 0, intent |-> "", customerName |-> "", customerId |-> "",
     fileKind |-> "", rows |-> <<>>, parsedRows |-> <<>>, enrichedRows |-> <<>>, lookups |-> <<>>,
     queries |-> <<>>, edges |-> <<>>,
     previewJson |-> [kind |-> "absent", rows |-> <<>>], previewRows |-> <<>>,
     includedRows |-> <<>>, totalQuantity |-> 0, lineItems |-> <<>>,
     b2b |-> NoB2BContext, shopNumericId |-> JNull, adminCalls |-> 0,
     draftOrder |-> NoDraftOrder]

Init ==
    /\ pc = [r \in Slots |-> "idle"]
    /\ local = [r \in Slots |-> IdleLocal]
    /\ outcome = [r \in Slots |-> NoOutcome]
    /\ history = <<>>
    /\ ocLog = <<>>
    /\ dbLog = <<>>
    /\ started = 0

\* The request of slot r returns `out`.
Return(r, out) ==
    /\ pc' = [pc EXCEPT ![r] = "done"]
    /\ outcome' = [outcome EXCEPT ![r] = out]

\* --------------------------------------------------- intent "process"

ErrRequired == "Customer selection and CSV/Excel file are required to import orders."

ErrUnreadable == "Unable to read the file. Please check that it's a valid CSV or Excel file."

ErrEmptyFile == "The file is empty."

ErrMissingColumns == "Header row must contain 'sku' and 'quantity' (or 'qty') columns."

ErrNoValidRows == "No valid rows found. Please check that SKU and Quantity columns are filled."

\* Mutant of ProcessValidate: a validation that never looks at the customer.
ProcessValidateIgnoresCustomer(customerNameRaw, customerIdRaw, file) ==
    LET customerName == Trim(customerNameRaw)
        customerId == Trim(customerIdRaw)
        rows == file.rows
    IN  IF file.kind \in {"missing", "string"}
        THEN ErrorOutcome(ErrRequired, customerName, customerId, <<>>)
        ELSE IF file.kind = "unreadable"
        THEN ErrorOutcome(ErrUnreadable, customerName, customerId, <<>>)
        ELSE IF Len(rows) = 0
        THEN ErrorOutcome(ErrEmptyFile, customerName, customerId, <<>>)
        ELSE IF SkuIndex(rows) = 0 \/ QtyIndex(rows) = 0
        THEN ErrorOutcome(ErrMissingColumns, customerName, customerId, <<>>)
        ELSE IF Len(ParsedRows(rows)) = 0
        THEN ErrorOutcome(ErrNoValidRows, customerName, customerId, <<>>)
        ELSE NoOutcome

\* The validation of a process request up to the enrichment loop: the error
\* outcome it returns, or NoOutcome when the request goes on to the lookups.
\* file.kind is "missing" (no file field), "string" (a text field),
\* "unreadable" (XLSX.read throws) or "grid" (file.rows is the decoded sheet).
ProcessValidate(customerNameRaw, customerIdRaw, file) ==
    LET customerName == Trim(customerNameRaw)
        customerId == Trim(customerIdRaw)
        missingCustomer == customerName = "" \/ customerId = ""
        missingFile == file.kind \in {"missing", "string"}
        rows == file.rows
    IN  IF missingCustomer \/ missingFile
        THEN ErrorOutcome(ErrRequired, customerName, customerId, <<>>)
        ELSE IF file.kind = "unreadable"
        THEN ErrorOutcome(ErrUnreadable, customerName, customerId, <<>>)
        ELSE IF Len(rows) = 0
        THEN ErrorOutcome(ErrEmptyFile, customerName, customerId, <<>>)
        ELSE IF SkuIndex(rows) = 0 \/ QtyIndex(rows) = 0
        THEN ErrorOutcome(ErrMissingColumns, customerName, customerId, <<>>)
        ELSE IF Len(ParsedRows(rows)) = 0
        THEN ErrorOutcome(ErrNoValidRows, customerName, customerId, <<>>)
        ELSE NoOutcome

\* The customerName / customerId pairs a form carries.
Customers == { <<"Acme", "gid://shopify/Customer/7">>, <<"Bolt", "42">> }

\* Grids the tabular decoder returns (header row first, cells as values).
GridExample ==
    << <<JStr("SKU"), JStr("Quantity")>>,
       <<JStr("ABC123"), JStr("5")>>,
       <<JStr(""), JStr("3")>>,
       <<JStr("XYZ999"), JStr("-1")>>,
       <<JStr("DEF000"), JStr("0")>>,
       <<JStr("GHI111"), JNum(2)>> >>

GridQtyFirst ==
    << <<JStr("name"), JStr("QTY"), JStr(" sku ")>>,
       <<JStr("w"), JNum(3), JStr(" ABC123 ")>>,
       <<JStr("x"), JStr("abc"), JStr("XYZ999")>>,
       <<JStr("y"), JNum(1), JStr("XYZ999")>> >>

GridNoSkuColumn == << <<JStr("SKU Code"), JStr("Quantity")>>, <<JStr("ABC123"), JNum(1)>> >>

GridNoValidRows == << <<JStr("sku"), JStr("qty")>>, <<JStr(" "), JNum(1)>>, <<JStr("ABC123"), JNum(0)>> >>

Files ==
    { [kind |-> "missing", rows |-> <<>>],
      [kind |-> "grid", rows |-> GridExample] }

\* One inventory level edge: its node (absent when node is FALSE) and the
\* node's quantities(names: ["available"]).
Level(quantity) ==
    [node |-> TRUE, quantities |-> <<[name |-> "available", quantity |-> quantity]>>]

LevelNoNode == [node |-> FALSE, quantities |-> <<>>]

LevelNoEntry == [node |-> TRUE, quantities |-> <<>>]

VariantNode(id, displayName, title, levelEdges) ==
    [id |-> JStr(id), displayName |-> displayName, title |-> title, levelEdges |-> levelEdges]

\* What the catalog can do with one variantBySku query: throw, answer with
\* GraphQL errors and no data, answer with no edge, or answer with an entry.
CatalogReplies ==
    { [kind |-> "throw", errors |-> FALSE, edges |-> <<>>],
      [kind |-> "json", errors |-> FALSE, edges |-> <<>>],
      [kind |-> "json", errors |-> FALSE, edges |->
          <<VariantNode("gid://shopify/ProductVariant/1", JStr("Widget - Default Title"), JNull,
                        <<Level(JNum(2))>>)>>] }

\* How a catalog reply entered the loop body.
LookupKind(reply) ==
    IF reply.kind = "throw" THEN "throw"
    ELSE IF reply.errors THEN "errors"
    ELSE IF Len(reply.edges) = 0 THEN "empty"
    ELSE "match"

\* Mutant of ProcessBegin: the lookups of all candidate rows are sent at once.
ProcessBeginQueriesAll(r, customers, files) ==
    /\ pc[r] = "idle"
    /\ started < MaxRequests
    /\ \E c \in customers, file \in files :
         LET v == ProcessValidate(c[1], c[2], file)
         IN  /\ started' = started + 1
             /\ local' = [local EXCEPT ![r] =
                    [IdleLocal EXCEPT !.rid = started + 1, !.intent = "process",
                                      !.customerName = Trim(c[1]),
                                      !.customerId = Trim(c[2]),
                                      !.fileKind = file.kind,
                                      !.rows = file.rows,
                                      !.parsedRows =
                                          IF v.mode = "none" THEN ParsedRows(file.rows) ELSE <<>>,
                                      !.queries =
                                          IF v.mode = "none"
                                          THEN [i \in 1..Len(ParsedRows(file.rows)) |->
                                                   ParsedRows(file.rows)[i].sku]
                                          ELSE <<>>]]
             /\ IF v.mode = "none"
                THEN /\ pc' = [pc EXCEPT ![r] = "lookup"]
                     /\ UNCHANGED outcome
                ELSE Return(r, v)
    /\ UNCHANGED <<history, ocLog, dbLog>>

\* Slot r takes a process request: validation and parsing run to the first
\* catalog lookup, which it sends, or to the validation error returned.
ProcessBegin(r, customers, files) ==
    /\ pc[r] = "idle"
    /\ started < MaxRequests
    /\ \E c \in customers, file \in files :
         LET v == ProcessValidate(c[1], c[2], file)
         IN  /\ started' = started + 1
             /\ local' = [local EXCEPT ![r] =
                    [IdleLocal EXCEPT !.rid = started + 1, !.intent = "process",
                                      !.customerName = Trim(c[1]),
                                      !.customerId = Trim(c[2]),
                                      !.fileKind = file.kind,
                                      !.rows = file.rows,
                                      !.parsedRows =
                                          IF v.mode = "none" THEN ParsedRows(file.rows) ELSE <<>>,
                                      !.queries =
                                          IF v.mode = "none" THEN <<ParsedRows(file.rows)[1].sku>> ELSE <<>>]]
             /\ IF v.mode = "none"
                THEN /\ pc' = [pc EXCEPT ![r] = "lookup"]
                     /\ UNCHANGED outcome
                ELSE Return(r, v)
    /\ UNCHANGED <<history, ocLog, dbLog>>

\* Mutant of CatalogLookup: a Preview that records the upload in the history
\* when it returns.
CatalogLookupRecordsPreview(r, replies) ==
    /\ pc[r] = "lookup"
    /\ \E reply \in replies :
         LET l == local[r]
             row == l.parsedRows[Len(l.lookups) + 1]
             enrichedRows == EnrichStep(l.enrichedRows, row, reply)
             data == [customerName |-> l.customerName, totalQuantity |-> Len(enrichedRows)]
         IN  /\ local' = [local EXCEPT ![r].enrichedRows = enrichedRows,
                                       ![r].lookups = Append(l.lookups, LookupKind(reply)),
                                       ![r].edges = Append(l.edges, reply.edges),
                                       ![r].queries =
                                           IF Len(l.lookups) + 1 < Len(l.parsedRows)
                                           THEN Append(l.queries, l.parsedRows[Len(l.lookups) + 2].sku)
                                           ELSE l.queries]
             /\ IF Len(l.lookups) + 1 < Len(l.parsedRows)
                THEN UNCHANGED <<pc, outcome, history, dbLog>>
                ELSE /\ Return(r, PreviewOutcome(l.customerName, l.customerId, enrichedRows))
                     /\ history' = Append(history, data)
                     /\ dbLog' = Append(dbLog, [rid |-> l.rid, data |-> data, saved |-> TRUE])
    /\ UNCHANGED <<ocLog, started>>

\* The catalog answers (or fails) the lookup of the next parsed row; the loop
\* body runs, and after the last row the preview is returned.
CatalogLookup(r, replies) ==
    /\ pc[r] = "lookup"
    /\ \E reply \in replies :
         LET l == local[r]
             row == l.parsedRows[Len(l.lookups) + 1]
             enrichedRows == EnrichStep(l.enrichedRows, row, reply)
         IN  /\ local' = [local EXCEPT ![r].enrichedRows = enrichedRows,
                                       ![r].lookups = Append(l.lookups, LookupKind(reply)),
                                       ![r].edges = Append(l.edges, reply.edges),
                                       ![r].queries =
                                           IF Len(l.lookups) + 1 < Len(l.parsedRows)
                                           THEN Append(l.queries, l.parsedRows[Len(l.lookups) + 2].sku)
                                           ELSE l.queries]
             /\ IF Len(l.lookups) + 1 < Len(l.parsedRows)
                THEN UNCHANGED <<pc, outcome>>
                ELSE Return(r, PreviewOutcome(l.customerName, l.customerId, enrichedRows))
    /\ UNCHANGED <<history, ocLog, dbLog, started>>

\* ---------------------------------------------------- intent "create"

ErrNothingToOrder == "No rows with available inventory to create a draft order. Please check the preview."

ErrExternalService == "Failed to create draft order via external service. "

\* customerGid.startsWith("gid://") ? customerGid.split("/").pop() : customerGid
CustomerNumericId(customerGid) ==
    CASE customerGid = "gid://shopify/Customer/7" -> "7"
      [] customerGid = "gid://shopify/Customer/8" -> "8"
      [] OTHER                                    -> customerGid

\* gid.startsWith("gid://") ? gid.split("/").pop() : gid, then numericId || null
ShopNumericId(gid) ==
    CASE gid = "gid://shopify/Shop/1" -> JStr("1")
      [] gid = ""                     -> JNull
      [] OTHER                        -> JStr(gid)

\* The rows Confirm works on.  previewJson.kind is "absent" (no field, or an
\* empty one), "unparseable" (JSON.parse throws, which is caught), "nonarray"
\* (JSON.parse yields null, a number or an object) or "array".
PreviewRows(previewJson) ==
    IF previewJson.kind = "array" THEN previewJson.rows ELSE <<>>

\* Mutant of IsIncluded: the filter without its quantity test.
IsIncludedAnyQuantity(row) == Truthy(row.exist) /\ Truthy(row.variantId)

\* Mutant of IsIncluded: the filter without its exist test.
IsIncludedIgnoresExist(row) ==
    /\ Truthy(row.variantId)
    /\ ~NumberOrZero(row.fulfilledQuantity).nan
    /\ NumberOrZero(row.fulfilledQuantity).n > 0

\* The predicate handed to previewRows.filter.
IsIncluded(row) ==
    /\ Truthy(row.exist)
    /\ Truthy(row.variantId)
    /\ ~NumberOrZero(row.fulfilledQuantity).nan
    /\ NumberOrZero(row.fulfilledQuantity).n > 0

IncludedRows(previewRows) == SelectSeq(previewRows, IsIncluded)

\* includedRows.reduce((sum, row) => sum + Number(row.fulfilledQuantity || 0), 0)
RECURSIVE SumFulfilled(_, _)
SumFulfilled(includedRows, i) ==
    IF i > Len(includedRows) THEN 0
    ELSE NumberOrZero(includedRows[i].fulfilledQuantity).n + SumFulfilled(includedRows, i + 1)

TotalQuantity(includedRows) == SumFulfilled(includedRows, 1)

\* Mutant of LineItems: line items carrying the requested quantity.
LineItemsRequested(includedRows) ==
    [i \in 1..Len(includedRows) |->
        [quantity |-> includedRows[i].quantityRequested,
         variantId |-> includedRows[i].variantId]]

\* Mutant of LineItems: quantities cut down to the row's availableQuantity.
LineItemsWithinAvailable(includedRows) ==
    [i \in 1..Len(includedRows) |->
        [quantity |->
            IF Number(includedRows[i].fulfilledQuantity).n > includedRows[i].availableQuantity
            THEN includedRows[i].availableQuantity
            ELSE Number(includedRows[i].fulfilledQuantity).n,
         variantId |-> includedRows[i].variantId]]

\* includedRows.map((row) => ({ quantity, variantId }))
LineItems(includedRows) ==
    [i \in 1..Len(includedRows) |->
        [quantity |-> Number(includedRows[i].fulfilledQuantity).n,
         variantId |-> includedRows[i].variantId]]

Note(customerName, customerNumericId) ==
    "Bulk upload for customer: " \o customerName
        \o " (Shopify customer ID: " \o customerNumericId \o ")"

\* The JSON body posted to DraftOrderCreate by the request with locals l.
RequestBody(l) ==
    [shop_id |-> l.shopNumericId,
     customerId |-> l.customerId,
     customerName |-> l.customerName,
     lineItems |-> l.lineItems,
     note |-> Note(l.customerName, CustomerNumericId(l.customerId)),
     totalQuantity |-> l.totalQuantity,
     companyId |-> l.b2b.companyId,
     companyLocationId |-> l.b2b.companyLocationId,
     companyContactId |-> l.b2b.companyContactId]

\* Mutant of DraftOrderError: a try block that never looks at the parsed body.
DraftOrderErrorTransportOnly(reply) ==
    CASE reply.kind = "throw"   -> reply.message
      [] reply.kind = "http"    -> "OC HTTP error " \o reply.message
      [] reply.kind = "badjson" -> "OC DraftOrderCreate: invalid JSON response"
      [] reply.kind = "json"    -> ""

\* The try block around fetch: the message of the error it throws, or ""
\* when it leaves draftOrder set.  reply.kind is "throw" (fetch rejects),
\* "http" (a non-2xx response), "badjson" (ocResp.json() rejects) or "json".
DraftOrderError(reply) ==
    CASE reply.kind = "throw"   -> reply.message
      [] reply.kind = "http"    -> "OC HTTP error " \o reply.message
      [] reply.kind = "badjson" -> "OC DraftOrderCreate: invalid JSON response"
      [] reply.kind = "json"    ->
            IF reply.isNull \/ ~Truthy(reply.success) \/ ~reply.hasDraftOrder
            THEN IF ~reply.isNull /\ Truthy(reply.error) THEN reply.error.s
                 ELSE "Invalid response from Shopify GraphQL"
            ELSE ""

\* Mutant of HistoryData: a record whose totalQuantity counts the rows.
HistoryDataCountsRows(l, draftOrder) ==
    [shopId |-> IF Truthy(l.shopNumericId) THEN l.shopNumericId ELSE JNull,
     customerId |-> CustomerNumericId(l.customerId),
     customerName |-> l.customerName,
     orderId |-> draftOrder.id,
     orderLegacyId |-> IF Truthy(draftOrder.legacyResourceId) THEN draftOrder.legacyResourceId.s ELSE "",
     orderName |-> IF Truthy(draftOrder.name) THEN draftOrder.name.s ELSE "",
     totalQuantity |-> Len(l.includedRows)]

\* The data handed to db.bulkOrderUpload.create.
HistoryData(l, draftOrder) ==
    [shopId |-> IF Truthy(l.shopNumericId) THEN l.shopNumericId ELSE JNull,
     customerId |-> CustomerNumericId(l.customerId),
     customerName |-> l.customerName,
     orderId |-> draftOrder.id,
     orderLegacyId |-> IF Truthy(draftOrder.legacyResourceId) THEN draftOrder.legacyResourceId.s ELSE "",
     orderName |-> IF Truthy(draftOrder.name) THEN draftOrder.name.s ELSE "",
     totalQuantity |-> l.totalQuantity]

\* realOrderName || realOrderLegacyId || realOrderId
OrderLabel(draftOrder) ==
    IF Truthy(draftOrder.name) THEN draftOrder.name.s
    ELSE IF Truthy(draftOrder.legacyResourceId) THEN draftOrder.legacyResourceId.s
    ELSE draftOrder.id.s

\* encodeURIComponent, on the labels the service can return.
EncodeURIComponent(s) ==
    CASE s = "#D1"                        -> "%23D1"
      [] s = "gid://shopify/DraftOrder/2" -> "gid%3A%2F%2Fshopify%2FDraftOrder%2F2"
      [] OTHER                            -> s

\* redirect(`/app?createdOrderName=${createdOrderNameParam}`)
RedirectOutcome(draftOrder) ==
    Outcome("redirect", "", "", "", <<>>,
            "/app?createdOrderName=" \o EncodeURIComponent(OrderLabel(draftOrder)))

\* The outcome returned when no row is included.
NothingToOrderOutcome(l) ==
    ErrorOutcome(ErrNothingToOrder, l.customerName, l.customerId, l.previewRows)

\* Mutant of ExternalServiceOutcome: an error carrying the filtered rows only.
ExternalServiceOutcomeIncludedOnly(l, message) ==
    ErrorOutcome(ErrExternalService \o message, l.customerName, l.customerId, l.includedRows)

\* The outcome returned by the catch around the order-creation call.
ExternalServiceOutcome(l, message) ==
    ErrorOutcome(ErrExternalService \o message, l.customerName, l.customerId, l.previewRows)

\* previewRows.filter on a value that is no array: a TypeError leaves the action.
ThrowOutcome == Outcome("threw", "TypeError: previewRows.filter is not a function", "", "", <<>>, "")

\* Slot r takes a create request.  getB2BContext answers at once, without a
\* call, when customerGid is empty.
CreateBegin(r, customers, previewJsons) ==
    /\ pc[r] = "idle"
    /\ started < MaxRequests
    /\ \E c \in customers, previewJson \in previewJsons :
         /\ local' = [local EXCEPT ![r] =
                [IdleLocal EXCEPT !.rid = started + 1, !.intent = "create",
                                  !.customerName = IF c[1] = "" THEN "Unknown Customer" ELSE c[1],
                                  !.customerId = c[2],
                                  !.previewJson = previewJson]]
         /\ pc' = [pc EXCEPT ![r] = IF c[2] = "" THEN "shop" ELSE "b2b"]
    /\ started' = started + 1
    /\ UNCHANGED <<outcome, history, ocLog, dbLog>>

\* What the B2BContext query of getB2BContext resolves to: the context of the
\* first company contact profile, or all null when the query throws or the
\* customer has no profile.
B2BContext(reply) ==
    IF reply.kind = "throw" \/ Len(reply.profiles) = 0 THEN NoB2BContext
    ELSE [companyId |-> reply.profiles[1].companyId,
          companyLocationId |->
              IF Len(reply.profiles[1].locations) = 0 THEN JNull
              ELSE reply.profiles[1].locations[1],
          companyContactId |-> reply.profiles[1].id]

\* The admin API answers (or fails) the B2BContext query.
GetB2BContext(r, replies) ==
    /\ pc[r] = "b2b"
    /\ \E reply \in replies :
         local' = [local EXCEPT ![r].b2b = B2BContext(reply),
                                ![r].adminCalls = @ + 1]
    /\ pc' = [pc EXCEPT ![r] = "shop"]
    /\ UNCHANGED <<outcome, history, ocLog, dbLog, started>>

\* Mutant of GetShopNumericId: a Confirm that gives up when the shop id could
\* not be resolved.
GetShopNumericIdRequired(r, replies) ==
    /\ pc[r] = "shop"
    /\ \E gid \in replies :
         LET previewJson == local[r].previewJson
             previewRows == PreviewRows(previewJson)
             includedRows == IncludedRows(previewRows)
             l == [local[r] EXCEPT !.shopNumericId = ShopNumericId(gid),
                                   !.adminCalls = @ + 1,
                                   !.previewRows = previewRows,
                                   !.includedRows = includedRows,
                                   !.totalQuantity = TotalQuantity(includedRows),
                                   !.lineItems = LineItems(includedRows)]
         IN  /\ local' = [local EXCEPT ![r] = l]
             /\ IF previewJson.kind = "nonarray"
                THEN Return(r, ThrowOutcome)
                ELSE IF Len(includedRows) = 0
                THEN Return(r, NothingToOrderOutcome(l))
                ELSE IF ShopNumericId(gid) = JNull
                THEN Return(r, ErrorOutcome("Unable to resolve the shop.", l.customerName,
                                            l.customerId, l.previewRows))
                ELSE /\ pc' = [pc EXCEPT ![r] = "fetch"]
                     /\ UNCHANGED outcome
    /\ UNCHANGED <<history, ocLog, dbLog, started>>

\* The admin API answers (or fails) the shop query of getShopNumericId; the
\* action then parses previewJson, filters it and either returns or goes on
\* to the order-creation call.  reply is the shop gid, "" when the query
\* throws or carries no data.
GetShopNumericId(r, replies) ==
    /\ pc[r] = "shop"
    /\ \E gid \in replies :
         LET previewJson == local[r].previewJson
             previewRows == PreviewRows(previewJson)
             includedRows == IncludedRows(previewRows)
             l == [local[r] EXCEPT !.shopNumericId = ShopNumericId(gid),
                                   !.adminCalls = @ + 1,
                                   !.previewRows = previewRows,
                                   !.includedRows = includedRows,
                                   !.totalQuantity = TotalQuantity(includedRows),
                                   !.lineItems = LineItems(includedRows)]
         IN  /\ local' = [local EXCEPT ![r] = l]
             /\ IF previewJson.kind = "nonarray"
                THEN Return(r, ThrowOutcome)
                ELSE IF Len(includedRows) = 0
                THEN Return(r, NothingToOrderOutcome(l))
                ELSE /\ pc' = [pc EXCEPT ![r] = "fetch"]
                     /\ UNCHANGED outcome
    /\ UNCHANGED <<history, ocLog, dbLog, started>>

\* Mutant of DraftOrderCreate: a Confirm whose request was already sent and
\* answered with success reuses that order and sends nothing.
DraftOrderCreateDeduplicates(r, replies) ==
    /\ pc[r] = "fetch"
    /\ LET l == local[r]
           earlier == { i \in DOMAIN ocLog :
                          ocLog[i].body = RequestBody(l) /\ DraftOrderError(ocLog[i].reply) = "" }
       IN  IF earlier # {}
           THEN /\ local' = [local EXCEPT ![r].draftOrder =
                                 ocLog[CHOOSE i \in earlier : TRUE].reply.draftOrder]
                /\ pc' = [pc EXCEPT ![r] = "dbwrite"]
                /\ UNCHANGED <<outcome, ocLog>>
           ELSE \E reply \in replies :
                  LET message == DraftOrderError(reply)
                  IN  /\ ocLog' = Append(ocLog, [rid |-> l.rid, body |-> RequestBody(l), reply |-> reply])
                      /\ IF message # ""
                         THEN /\ Return(r, ExternalServiceOutcome(l, message))
                              /\ UNCHANGED local
                         ELSE /\ local' = [local EXCEPT ![r].draftOrder = reply.draftOrder]
                              /\ pc' = [pc EXCEPT ![r] = "dbwrite"]
                              /\ UNCHANGED outcome
    /\ UNCHANGED <<history, dbLog, started>>

\* The order-creation service answers (or the call fails).  reply.created
\* tells whether the service created a draft order while handling the call.
DraftOrderCreate(r, replies) ==
    /\ pc[r] = "fetch"
    /\ \E reply \in replies :
         LET l == local[r]
             message == DraftOrderError(reply)
         IN  /\ ocLog' = Append(ocLog, [rid |-> l.rid, body |-> RequestBody(l), reply |-> reply])
             /\ IF message # ""
                THEN /\ Return(r, ExternalServiceOutcome(l, message))
                     /\ UNCHANGED local
                ELSE /\ local' = [local EXCEPT ![r].draftOrder = reply.draftOrder]
                     /\ pc' = [pc EXCEPT ![r] = "dbwrite"]
                     /\ UNCHANGED outcome
    /\ UNCHANGED <<history, dbLog, started>>

\* Mutant of BulkOrderUploadCreate: a rejected write surfaces as an error.
BulkOrderUploadCreateSurfacesFailure(r) ==
    /\ pc[r] = "dbwrite"
    /\ \E saved \in BOOLEAN :
         LET data == HistoryData(local[r], local[r].draftOrder)
         IN  /\ dbLog' = Append(dbLog, [rid |-> local[r].rid, data |-> data, saved |-> saved])
             /\ history' = IF saved THEN Append(history, data) ELSE history
             /\ IF saved
                THEN Return(r, RedirectOutcome(local[r].draftOrder))
                ELSE Return(r, ErrorOutcome("Error saving bulk upload", local[r].customerName,
                                            local[r].customerId, local[r].previewRows))
    /\ UNCHANGED <<local, ocLog, started>>

\* Mutant of BulkOrderUploadCreate: a write that replaces the stored record
\* instead of inserting a new one.
BulkOrderUploadCreateOverwrites(r) ==
    /\ pc[r] = "dbwrite"
    /\ \E saved \in BOOLEAN :
         LET data == HistoryData(local[r], local[r].draftOrder)
         IN  /\ dbLog' = Append(dbLog, [rid |-> local[r].rid, data |-> data, saved |-> saved])
             /\ history' = IF saved THEN <<data>> ELSE history
    /\ Return(r, RedirectOutcome(local[r].draftOrder))
    /\ UNCHANGED <<local, ocLog, started>>

\* db.bulkOrderUpload.create resolves (the row is inserted) or rejects (the
\* catch logs it); either way the redirect is returned.
BulkOrderUploadCreate(r) ==
    /\ pc[r] = "dbwrite"
    /\ \E saved \in BOOLEAN :
         LET data == HistoryData(local[r], local[r].draftOrder)
         IN  /\ dbLog' = Append(dbLog, [rid |-> local[r].rid, data |-> data, saved |-> saved])
             /\ history' = IF saved THEN Append(history, data) ELSE history
    /\ Return(r, RedirectOutcome(local[r].draftOrder))
    /\ UNCHANGED <<local, ocLog, started>>

\* The response has been delivered: the slot is free again.
Finish(r) ==
    /\ pc[r] = "done"
    /\ pc' = [pc EXCEPT ![r] = "idle"]
    /\ local' = [local EXCEPT ![r] = IdleLocal]
    /\ outcome' = [outcome EXCEPT ![r] = NoOutcome]
    /\ UNCHANGED <<history, ocLog, dbLog, started>>

\* ------------------------------------------------------------- inputs

\* Snapshot rows a create request can carry: rows as Preview makes them and
\* rows a client has changed.
SnapRow(sku, exist, variantId, fulfilledQuantity) ==
    Row(sku, "Widget", JBool(exist), 3, 3, fulfilledQuantity,
        IF exist THEN "ok" ELSE "sku not found", variantId)

RowV1 == SnapRow("ABC123", TRUE, JStr("v1"), JNum(3))

RowV2 == SnapRow("GHI111", TRUE, JStr("v2"), JNum(2))

RowNotFound == SnapRow("XYZ999", FALSE, JNull, JNum(0))

RowNoStock == SnapRow("DEF000", TRUE, JStr("v2"), JNum(0))

PreviewJsons ==
    { [kind |-> "array", rows |-> <<RowNotFound, RowNoStock>>],
      [kind |-> "array", rows |-> <<RowV1, RowNotFound, RowNoStock>>],
      [kind |-> "array", rows |-> <<RowV2, RowV1>>] }

B2BReplies ==
    { [kind |-> "throw", profiles |-> <<>>],
      [kind |-> "json", profiles |->
          <<[id |-> JStr("contact1"), companyId |-> JStr("company1"),
             locations |-> <<JStr("location1")>>]>>] }

ShopReplies == {"gid://shopify/Shop/1"}

ShopRepliesWide == {"", "gid://shopify/Shop/1"}

OcReply(kind, created, message, success, hasDraftOrder, draftOrder, error) ==
    [kind |-> kind, created |-> created, message |-> message, isNull |-> FALSE,
     success |-> success, hasDraftOrder |-> hasDraftOrder,
     draftOrder |-> draftOrder, error |-> error]

DraftOrder(id, legacyResourceId, name) ==
    [id |-> JStr(id), legacyResourceId |-> legacyResourceId, name |-> name]

DraftOrders ==
    { DraftOrder("gid://shopify/DraftOrder/1", JStr("1"), JStr("#D1")),
      DraftOrder("gid://shopify/DraftOrder/2", JNull, JNull) }

OcReplies ==
    { OcReply("throw", TRUE, "fetch failed", JNull, FALSE, NoDraftOrder, JNull),
      OcReply("json", FALSE, "", JBool(FALSE), FALSE, NoDraftOrder, JStr("Customer not found")) }
    \cup { OcReply("json", TRUE, "", JBool(TRUE), TRUE, d, JNull) : d \in DraftOrders }

\* Every sequence over S of at most n elements.
SeqsUpTo(S, n) == UNION { [1..k -> S] : k \in 0..n }

\* The wider inputs of a single request.
CustomersWide ==
    { <<"", "">>, <<" ", "42">>, <<"Acme", "gid://shopify/Customer/7">>, <<" Acme ", "42">> }

\* A sheet whose SKU column holds numeric and boolean cells.
GridTypedCells ==
    << <<JStr("sku"), JStr("qty")>>,
       <<JNum(0), JNum(5)>>,
       <<JStr("ABC123"), JBool(TRUE)>>,
       <<JNum(7), JStr("2")>> >>

\* Sheets whose header has a cell that only contains a column word, and whose
\* header names each column twice.
GridNoQtyColumn == << <<JStr("sku"), JStr("Order Qty")>>, <<JStr("ABC123"), JNum(1)>> >>

GridTwoMatches ==
    << <<JStr("Qty"), JNum(7), JStr("SKU"), JStr("quantity"), JStr(" sku ")>>,
       <<JNum(1), JStr("x"), JStr("ABC123"), JNum(5), JStr("XYZ999")>> >>

\* A sheet that asks for the same SKU in two rows.
GridSameSkuTwice ==
    << <<JStr("sku"), JStr("qty")>>,
       <<JStr("ABC123"), JNum(2)>>,
       <<JStr("ABC123"), JNum(2)>> >>

GridThreeRows ==
    << <<JStr("sku"), JStr("qty")>>,
       <<JStr("ABC123"), JNum(1)>>,
       <<JStr("XYZ999"), JNum(2)>>,
       <<JStr("GHI111"), JNum(3)>> >>

FilesWide ==
    Files \cup { [kind |-> "string", rows |-> <<>>],
                 [kind |-> "unreadable", rows |-> <<>>],
                 [kind |-> "grid", rows |-> <<>>],
                 [kind |-> "grid", rows |-> GridNoSkuColumn],
                 [kind |-> "grid", rows |-> GridNoValidRows],
                 [kind |-> "grid", rows |-> GridQtyFirst],
                 [kind |-> "grid", rows |-> GridTypedCells],
                 [kind |-> "grid", rows |-> GridNoQtyColumn],
                 [kind |-> "grid", rows |-> GridTwoMatches],
                 [kind |-> "grid", rows |-> GridSameSkuTwice],
                 [kind |-> "grid", rows |-> GridThreeRows] }

CatalogRepliesWide ==
    CatalogReplies \cup
    { [kind |-> "json", errors |-> TRUE, edges |-> <<>>],
      [kind |-> "json", errors |-> FALSE, edges |->
          <<VariantNode("gid://shopify/ProductVariant/4", JStr("Thing"), JNull, <<>>)>>],
      [kind |-> "json", errors |-> FALSE, edges |->
          <<VariantNode("gid://shopify/ProductVariant/3", JNull, JNull,
                        <<Level(JNum(-1)), LevelNoEntry, Level(JNull)>>)>>],
      [kind |-> "json", errors |-> FALSE, edges |->
          <<VariantNode("gid://shopify/ProductVariant/2", JNull, JStr("Gadget"),
                        <<Level(JNum(1)), LevelNoNode, Level(JNum(4))>>)>>] }

SnapRows ==
    { SnapRow("ABC123", exist, variantId, fulfilledQuantity) :
        exist \in BOOLEAN,
        variantId \in {JNull, JStr("v1")},
        fulfilledQuantity \in {JNum(0), JNum(2)} }
    \cup { SnapRow("GHI111", TRUE, JStr("v2"), JNum(5)),
           SnapRow("GHI111", FALSE, JStr("v2"), JNum(5)),
           SnapRow("GHI111", TRUE, JStr("v2"), JNull),
           SnapRow("GHI111", TRUE, JStr("v2"), JNum(-1)) }

PreviewJsonsWide ==
    { [kind |-> k, rows |-> <<>>] : k \in {"absent", "unparseable", "nonarray"} }
    \cup { [kind |-> "array", rows |-> rows] : rows \in SeqsUpTo(SnapRows, MaxSnapRows) }

B2BRepliesWide ==
    B2BReplies \cup
    { [kind |-> "json", profiles |-> <<>>],
      [kind |-> "json", profiles |->
          <<[id |-> JStr("contact1"), companyId |-> JStr("company1"), locations |-> <<>>]>>] }

OcRepliesWide ==
    OcReplies
    \cup { OcReply("throw", FALSE, "fetch failed", JNull, FALSE, NoDraftOrder, JNull),
           OcReply("http", FALSE, "500 Internal Server Error", JNull, FALSE, NoDraftOrder, JNull), OcReply("http", TRUE, "502 Bad Gateway", JNull, FALSE, NoDraftOrder, JNull),
           OcReply("badjson", FALSE, "", JNull, FALSE, NoDraftOrder, JNull),
           OcReply("badjson", TRUE, "", JNull, FALSE, NoDraftOrder, JNull),
           OcReply("json", TRUE, "", JBool(TRUE), FALSE, NoDraftOrder, JNull),
           OcReply("json", FALSE, "", JBool(FALSE), FALSE, NoDraftOrder, JNull),
           [OcReply("json", FALSE, "", JNull, FALSE, NoDraftOrder, JNull) EXCEPT !.isNull = TRUE],
           OcReply("json", TRUE, "", JBool(TRUE), TRUE,
                   DraftOrder("gid://shopify/DraftOrder/3", JStr("3"), JNull), JNull) }

\* Requests of two slots, interleaved at their awaited calls.
Next ==
    \E r \in Slots :
        \/ ProcessBegin(r, Customers, Files)
        \/ CatalogLookup(r, CatalogReplies)
        \/ CreateBegin(r, Customers, PreviewJsons)
        \/ GetB2BContext(r, B2BReplies)
        \/ GetShopNumericId(r, ShopReplies)
        \/ DraftOrderCreate(r, OcReplies)
        \/ BulkOrderUploadCreate(r)
        \/ Finish(r)

Spec == Init /\ [][Next]_vars

\* One request, alone, over the wider inputs.
NextOne ==
    \/ started = 0 /\ ProcessBegin(1, CustomersWide, FilesWide)
    \/ CatalogLookup(1, CatalogRepliesWide)
    \/ started = 0 /\ CreateBegin(1, CustomersWide, PreviewJsonsWide)
    \/ GetB2BContext(1, B2BRepliesWide)
    \/ GetShopNumericId(1, ShopRepliesWide)
    \/ DraftOrderCreate(1, OcRepliesWide)
    \/ BulkOrderUploadCreate(1)
    \/ Finish(1)

SpecOne == Init /\ [][NextOne]_vars

\* ------------------------------------------------------------ properties

\* The calls a request (by its id) has issued, read off the logs.
OcCallsOf(rid) == { i \in DOMAIN ocLog : ocLog[i].rid = rid }

DbWritesOf(rid) == { i \in DOMAIN dbLog : dbLog[i].rid = rid }

\* The order-creation service answered with a success indicator and a
\* created-order descriptor.
Succeeded(reply) ==
    /\ reply.kind = "json"
    /\ ~reply.isNull
    /\ reply.success = JBool(TRUE)
    /\ reply.hasDraftOrder

\* The inclusion predicate as the specification words it.
Includable(row) ==
    /\ row.exist = JBool(TRUE)
    /\ row.variantId # JNull
    /\ row.fulfilledQuantity.k = "num"
    /\ row.fulfilledQuantity.n > 0

\* The snapshot a create request carries: the rows of its previewJson.
Snapshot(r) == local[r].previewJson.rows

CarriesSnapshot(r) ==
    /\ local[r].intent = "create"
    /\ local[r].previewJson.kind # "nonarray"

\* C1: row isolation in Preview.  Whatever the catalog does with each lookup,
\* every looked-up row is emitted at its own position; a lookup that threw
\* leaves a row with status "error" for that SKU there; the loop goes on to
\* the rows after it, and the request ends by returning a preview with one
\* row per candidate row.
C1_RowIsolation ==
    \A r \in Slots :
        local[r].intent = "process" /\ local[r].parsedRows # <<>> =>
            LET l == local[r]
            IN  /\ Len(l.enrichedRows) = Len(l.lookups)
                /\ \A i \in 1..Len(l.lookups) :
                      /\ i <= Len(l.enrichedRows) => l.enrichedRows[i].sku = l.parsedRows[i].sku
                      /\ l.lookups[i] = "throw" =>
                            /\ i <= Len(l.enrichedRows)
                            /\ l.enrichedRows[i].status = "error"
                /\ pc[r] = "lookup" => Len(l.lookups) < Len(l.parsedRows)
                /\ pc[r] = "done" =>
                      /\ Len(l.lookups) = Len(l.parsedRows)
                      /\ outcome[r].mode = "preview"
                      /\ outcome[r].previewRows = l.enrichedRows
                      /\ Len(outcome[r].previewRows) = Len(l.parsedRows)

\* A preview of three rows was returned although the first lookup threw, and
\* the rows after it were matched or found absent.
C1_Witness ==
    \E r \in Slots :
        /\ pc[r] = "done"
        /\ outcome[r].mode = "preview"
        /\ Len(outcome[r].previewRows) = 3
        /\ local[r].lookups = <<"throw", "match", "empty">>
        /\ outcome[r].previewRows[1].status = "error"
        /\ outcome[r].previewRows[2].status = "ok"

\* C2: a create request whose snapshot has no includable row returns the
\* nothing-to-order error, and in that execution no order-creation call is
\* issued and no history write is attempted.
C2_NoOpConfirm ==
    \A r \in Slots :
        CarriesSnapshot(r) /\ (\A i \in DOMAIN Snapshot(r) : ~Includable(Snapshot(r)[i])) =>
            /\ OcCallsOf(local[r].rid) = {}
            /\ DbWritesOf(local[r].rid) = {}
            /\ pc[r] \in {"b2b", "shop", "done"}
            /\ pc[r] = "done" =>
                  /\ outcome[r].mode = "error"
                  /\ outcome[r].error = ErrNothingToOrder

\* A create request with rows, none of them includable, has returned.
C2_Witness ==
    \E r \in Slots :
        /\ pc[r] = "done"
        /\ CarriesSnapshot(r)
        /\ Len(Snapshot(r)) = 2
        /\ \A i \in DOMAIN Snapshot(r) : ~Includable(Snapshot(r)[i])
        /\ outcome[r].error = ErrNothingToOrder

\* The label of a created order: its name, else its legacy id, else its id.
LabelParam(draftOrder) ==
    CASE draftOrder.name = JStr("#D1")       -> "%23D1"
      [] draftOrder.legacyResourceId = JStr("3") /\ draftOrder.name = JNull -> "3"
      [] draftOrder.id = JStr("gid://shopify/DraftOrder/2") -> "gid%3A%2F%2Fshopify%2FDraftOrder%2F2"

\* C3: when the order-creation call succeeded and the history write threw,
\* Confirm returns the redirect carrying the created order's label.
C3_SuccessDespiteWriteFailure ==
    \A r \in Slots :
        pc[r] = "done" =>
            \A i \in OcCallsOf(local[r].rid), j \in DbWritesOf(local[r].rid) :
                Succeeded(ocLog[i].reply) /\ ~dbLog[j].saved =>
                    /\ outcome[r].mode = "redirect"
                    /\ outcome[r].location =
                          "/app?createdOrderName=" \o LabelParam(ocLog[i].reply.draftOrder)

\* A Confirm has returned after its history write failed.
C3_Witness ==
    \E r \in Slots :
        /\ pc[r] = "done"
        /\ \E j \in DbWritesOf(local[r].rid) : ~dbLog[j].saved
        /\ outcome[r].location = "/app?createdOrderName=%23D1"

\* C4: the history never holds more records than there were successful
\* order-creation calls, and every history write belongs to a request whose
\* own order-creation call succeeded.
C4_HistoryWithinSuccesses ==
    /\ Len(history) <= Cardinality({ i \in DOMAIN ocLog : Succeeded(ocLog[i].reply) })
    /\ Len(history) = Cardinality({ j \in DOMAIN dbLog : dbLog[j].saved })
    /\ \A j \in DOMAIN dbLog :
          \E i \in OcCallsOf(dbLog[j].rid) : Succeeded(ocLog[i].reply)

\* Two Confirms ran, one failed at the order-creation call and one succeeded
\* and was recorded.
C4_Witness ==
    /\ Len(ocLog) = 2
    /\ Len(history) = 1
    /\ \E i \in DOMAIN ocLog : ~Succeeded(ocLog[i].reply)

\* C5: a request whose order-creation call succeeded attempts one history
\* write, never a second one, and not before the call; the record carries
\* the id, legacy id and name of the returned descriptor (an absent legacy
\* id or name is stored as "") and the totalQuantity that was sent.
C5_OneHistoryWrite ==
    \A r \in Slots :
        LET rid == local[r].rid
        IN  /\ Cardinality(DbWritesOf(rid)) <= 1
            /\ pc[r] \in {"fetch", "dbwrite"} => DbWritesOf(rid) = {}
            /\ \A i \in OcCallsOf(rid) :
                  pc[r] = "done" /\ Succeeded(ocLog[i].reply) =>
                      /\ Cardinality(DbWritesOf(rid)) = 1
                      /\ \A j \in DbWritesOf(rid) :
                            LET d == ocLog[i].reply.draftOrder
                                data == dbLog[j].data
                            IN  /\ data.orderId = d.id
                                /\ JStr(data.orderLegacyId) =
                                      (IF d.legacyResourceId = JNull THEN JStr("") ELSE d.legacyResourceId)
                                /\ JStr(data.orderName) =
                                      (IF d.name = JNull THEN JStr("") ELSE d.name)
                                /\ data.totalQuantity = ocLog[i].body.totalQuantity

\* A Confirm of two includable rows has returned with its record written.
C5_Witness ==
    \E r \in Slots :
        /\ pc[r] = "done"
        /\ \E j \in DbWritesOf(local[r].rid) :
              /\ dbLog[j].saved
              /\ dbLog[j].data.totalQuantity = 5
              /\ dbLog[j].data.orderName = "#D1"

\* The error texts of an order-creation call that failed.
ExternalServiceErrors ==
    { ErrExternalService \o m :
        m \in { "fetch failed",
                "OC HTTP error 500 Internal Server Error",
                "OC HTTP error 502 Bad Gateway",
                "OC DraftOrderCreate: invalid JSON response",
                "Customer not found",
                "Invalid response from Shopify GraphQL" } }

\* C6: when the order-creation call yields no success indicator with a
\* created-order descriptor (it threw, answered non-2xx, answered an
\* unparseable body, success=false or no draftOrder), Confirm aborts with the
\* external-service error; the outcome's previewRows are the submitted
\* snapshot, unchanged in content and order, with the customer name and id
\* of the request, and no history write follows.
C6_FailureKeepsSnapshot ==
    \A r \in Slots :
        \A i \in OcCallsOf(local[r].rid) :
            ~Succeeded(ocLog[i].reply) =>
                /\ pc[r] = "done"
                /\ outcome[r].mode = "error"
                /\ outcome[r].error \in ExternalServiceErrors
                /\ outcome[r].previewRows = Snapshot(r)
                /\ outcome[r].customerName = ocLog[i].body.customerName
                /\ outcome[r].customerId = ocLog[i].body.customerId
                /\ DbWritesOf(local[r].rid) = {}

\* A Confirm of a snapshot with an includable and a non-includable row has
\* failed on a response without a draftOrder.
C6_Witness ==
    \E r \in Slots :
        /\ pc[r] = "done"
        /\ Len(Snapshot(r)) = 2
        /\ Len(local[r].includedRows) = 1
        /\ \E i \in OcCallsOf(local[r].rid) :
              /\ ocLog[i].reply.kind = "json"
              /\ ocLog[i].reply.success = JBool(TRUE)
              /\ ~ocLog[i].reply.hasDraftOrder
        /\ outcome[r].mode = "error"

\* C7: Confirm is atomic with respect to order creation: a Confirm that
\* returned an error created no order at the service, and a Confirm whose
\* call created an order returns the success outcome.
C7_Atomic ==
    \A r \in Slots :
        pc[r] = "done" /\ local[r].intent = "create" =>
            \A i \in OcCallsOf(local[r].rid) :
                /\ outcome[r].mode = "error" => ~ocLog[i].reply.created
                /\ ocLog[i].reply.created => outcome[r].mode = "redirect"

\* C8: a process request, whatever it returns and whatever the catalog
\* answers, issues no order-creation call and attempts no history write.
C8_PreviewReadOnly ==
    \A r \in Slots :
        local[r].intent = "process" =>
            /\ OcCallsOf(local[r].rid) = {}
            /\ DbWritesOf(local[r].rid) = {}
            /\ pc[r] \in {"lookup", "done"}

\* A Preview has been returned beside an order that another request created
\* and recorded.
C8_Witness ==
    \E r \in Slots :
        /\ local[r].intent = "process"
        /\ pc[r] = "done"
        /\ outcome[r].mode = "preview"
        /\ Len(ocLog) = 1
        /\ Len(history) = 1

\* C9: the rows Confirm includes are the rows of the snapshot with
\* exist = true, a non-null variantId and fulfilledQuantity > 0, all of them
\* and no others, in snapshot order.
C9_InclusionPredicate ==
    \A r \in Slots :
        CarriesSnapshot(r) /\ pc[r] \in {"fetch", "dbwrite", "done"} =>
            /\ local[r].includedRows = SelectSeq(Snapshot(r), Includable)
            /\ \A i \in OcCallsOf(local[r].rid) :
                  Len(ocLog[i].body.lineItems) = Len(SelectSeq(Snapshot(r), Includable))

\* Confirm has filtered a snapshot whose first row has a variant and a
\* positive quantity but exist = false, and whose second row is includable.
C9_Witness ==
    \E r \in Slots :
        /\ CarriesSnapshot(r)
        /\ pc[r] = "fetch"
        /\ Len(Snapshot(r)) = 2
        /\ Snapshot(r)[1].exist = JBool(FALSE)
        /\ Snapshot(r)[1].variantId = JStr("v2")
        /\ Snapshot(r)[1].fulfilledQuantity = JNum(5)
        /\ local[r].includedRows = <<Snapshot(r)[2]>>

\* The sum of the quantities of a sequence of line items.
RECURSIVE SumQuantities(_, _)
SumQuantities(lineItems, i) ==
    IF i > Len(lineItems) THEN 0
    ELSE lineItems[i].quantity + SumQuantities(lineItems, i + 1)

\* C10: the request sent to the order-creation service has one line item per
\* includable row, in order, pairing that row's variantId with that row's
\* fulfilledQuantity, and its totalQuantity is the sum of the line-item
\* quantities.
C10_OrderRequest ==
    \A r \in Slots :
        \A i \in OcCallsOf(local[r].rid) :
            LET included == SelectSeq(Snapshot(r), Includable)
                body == ocLog[i].body
            IN  /\ Len(body.lineItems) = Len(included)
                /\ \A k \in 1..Len(included) :
                      /\ body.lineItems[k].variantId = included[k].variantId
                      /\ JNum(body.lineItems[k].quantity) = included[k].fulfilledQuantity
                /\ body.totalQuantity = SumQuantities(body.lineItems, 1)

\* A request with two line items of different variants and quantities was sent.
C10_Witness ==
    \E i \in DOMAIN ocLog :
        /\ ocLog[i].body.lineItems =
              <<[quantity |-> 2, variantId |-> JStr("v1")], [quantity |-> 5, variantId |-> JStr("v2")]>>
        /\ ocLog[i].body.totalQuantity = 7

\* The rows of a process request that came out of a matched lookup, by position.
MatchedAt(r) == { i \in 1..Len(local[r].enrichedRows) : local[r].lookups[i] = "match" }

\* C11: the classification of a matched row follows from its requested and
\* available quantities alone.  available <= 0 gives fulfilledQuantity 0 and
\* "no stock", whatever was requested; otherwise available < requested gives
\* fulfilledQuantity = available and "partial"; otherwise available >=
\* requested > 0 gives fulfilledQuantity = requested and "ok".  Every matched
\* row falls in exactly one of the three cases.
C11_Classification ==
    \A r \in Slots : \A i \in MatchedAt(r) :
        LET row == local[r].enrichedRows[i]
            requested == row.quantityRequested
            available == row.availableQuantity
        IN  /\ requested >= 0
            /\ available <= 0 =>
                  row.fulfilledQuantity = JNum(0) /\ row.status = "no stock"
            /\ 0 < available /\ available < requested =>
                  row.fulfilledQuantity = JNum(available) /\ row.status = "partial"
            /\ available >= requested /\ requested > 0 =>
                  row.fulfilledQuantity = JNum(requested) /\ row.status = "ok"
            /\ row.status \in {"no stock", "partial", "ok"}

\* A preview whose three matched rows fell in the three cases: nothing
\* available (a negative total), enough, and a shortage.
C11_Witness ==
    \E r \in Slots :
        /\ pc[r] = "done"
        /\ outcome[r].mode = "preview"
        /\ local[r].lookups = <<"match", "match", "match">>
        /\ [i \in 1..3 |-> outcome[r].previewRows[i].status] = <<"no stock", "ok", "partial">>
        /\ outcome[r].previewRows[1].availableQuantity < 0

\* The smaller of two numbers.
Min(a, b) == IF a <= b THEN a ELSE b

\* C12: every row of every preview returned has a non-negative
\* availableQuantity and 0 <= fulfilledQuantity <= min(quantityRequested,
\* availableQuantity), whatever the catalog answered, locations reporting
\* negative available quantities included.
C12_FulfilledWithinBounds ==
    \A r \in Slots :
        outcome[r].mode = "preview" =>
            \A i \in 1..Len(outcome[r].previewRows) :
                LET row == outcome[r].previewRows[i]
                IN  /\ row.availableQuantity >= 0
                    /\ row.fulfilledQuantity.k = "num"
                    /\ 0 <= row.fulfilledQuantity.n
                    /\ row.fulfilledQuantity.n <= Min(row.quantityRequested, row.availableQuantity)

\* C13: in every row Preview produces, a positive fulfilledQuantity comes
\* with exist = true and status "ok" or "partial"; a row with status
\* "no stock", "sku not found" or "error" has fulfilledQuantity 0.
C13_PositiveImpliesOrderable ==
    \A r \in Slots :
        local[r].intent = "process" =>
            \A i \in 1..Len(local[r].enrichedRows) :
                LET row == local[r].enrichedRows[i]
                IN  /\ row.fulfilledQuantity.k = "num"
                    /\ row.fulfilledQuantity.n > 0 =>
                          row.exist = JBool(TRUE) /\ row.status \in {"ok", "partial"}
                    /\ row.status \in {"no stock", "sku not found", "error"} =>
                          row.fulfilledQuantity = JNum(0)

\* A preview was returned with a failed row, a matched row without stock and
\* a matched row with a positive fulfilledQuantity.
C13_Witness ==
    \E r \in Slots :
        /\ pc[r] = "done"
        /\ outcome[r].mode = "preview"
        /\ outcome[r].previewRows = local[r].enrichedRows
        /\ Len(outcome[r].previewRows) = 3
        /\ outcome[r].previewRows[1].status = "error"
        /\ outcome[r].previewRows[2].status = "no stock"
        /\ outcome[r].previewRows[3].fulfilledQuantity.n > 0
        /\ outcome[r].previewRows[3].status = "partial"

\* C14: in every row Preview produces, variantId is non-null exactly when
\* exist is true: a matched row carries the id of its catalog entry, a row
\* that was not found or whose lookup failed carries null.
C14_VariantIffExists ==
    \A r \in Slots :
        local[r].intent = "process" =>
            \A i \in 1..Len(local[r].enrichedRows) :
                LET row == local[r].enrichedRows[i]
                IN  /\ row.exist \in {JBool(TRUE), JBool(FALSE)}
                    /\ (row.variantId # JNull) <=> (row.exist = JBool(TRUE))
                    /\ local[r].lookups[i] = "match" =>
                          row.variantId.k = "str" /\ row.variantId.s # ""
                    /\ local[r].lookups[i] # "match" => row.variantId = JNull

\* A preview was returned with a matched row carrying its entry's id between
\* a row that was not found and a row whose lookup failed.
C14_Witness ==
    \E r \in Slots :
        /\ pc[r] = "done"
        /\ outcome[r].mode = "preview"
        /\ outcome[r].previewRows = local[r].enrichedRows
        /\ local[r].lookups = <<"empty", "match", "throw">>
        /\ outcome[r].previewRows[2].variantId = JStr("gid://shopify/ProductVariant/2")
        /\ outcome[r].previewRows[2].exist = JBool(TRUE)

\* C15: a row whose catalog lookup failed, because the call threw or because
\* the service answered with errors instead of a result, has status "error"
\* with exist = false, availableQuantity 0, fulfilledQuantity 0 and a null
\* variantId; status "sku not found" is given only to a row whose lookup
\* succeeded and returned no entry.
C15_FailedLookupIsError ==
    \A r \in Slots :
        local[r].intent = "process" =>
            \A i \in 1..Len(local[r].enrichedRows) :
                LET row == local[r].enrichedRows[i]
                IN  /\ local[r].lookups[i] \in {"throw", "errors"} =>
                          /\ row.status = "error"
                          /\ row.exist = JBool(FALSE)
                          /\ row.availableQuantity = 0
                          /\ row.fulfilledQuantity = JNum(0)
                          /\ row.variantId = JNull
                    /\ row.status = "sku not found" => local[r].lookups[i] = "empty"

\* C16: when the catalog answers a lookup with no entry, the row produced has
\* exist = false, status "sku not found", the placeholder productName,
\* availableQuantity 0, fulfilledQuantity 0 and a null variantId, and keeps
\* the sku and quantityRequested of its candidate row.
C16_SkuNotFoundRow ==
    \A r \in Slots :
        local[r].intent = "process" =>
            \A i \in 1..Len(local[r].enrichedRows) :
                local[r].lookups[i] = "empty" =>
                    local[r].enrichedRows[i] =
                        Row(local[r].parsedRows[i].sku, "* * * * * * *", JBool(FALSE), 0,
                            local[r].parsedRows[i].quantityRequested, JNum(0),
                            "sku not found", JNull)

\* The example sheet was previewed and the catalog had no entry for its
\* second candidate row, GHI111 with quantity 2.
C16_Witness ==
    \E r \in Slots :
        /\ pc[r] = "done"
        /\ outcome[r].mode = "preview"
        /\ local[r].lookups = <<"match", "empty">>
        /\ outcome[r].previewRows[2].sku = "GHI111"
        /\ outcome[r].previewRows[2].quantityRequested = 2
        /\ outcome[r].previewRows[2].status = "sku not found"

\* The candidate rows `parsed` are data rows of the grid `rows`, taken in the
\* grid's order: candidate i is the data row f[i], with f increasing.
InGridOrder(parsed, rows) ==
    \E f \in [1..Len(parsed) -> 2..Len(rows)] :
        /\ \A i, j \in 1..Len(parsed) : i < j => f[i] < f[j]
        /\ \A i \in 1..Len(parsed) :
              /\ parsed[i].sku = Trim(StringOrEmpty(Cell(rows[f[i]], SkuIndex(rows))))
              /\ Num(parsed[i].quantityRequested) = NumberOrZero(Cell(rows[f[i]], QtyIndex(rows)))

\* C17: a preview returned has as many rows as there were candidate rows, row
\* i carries the sku and quantityRequested of candidate row i, and the
\* candidate rows follow the order of the data rows of the uploaded grid.
C17_OrderPreserved ==
    \A r \in Slots :
        outcome[r].mode = "preview" =>
            /\ Len(outcome[r].previewRows) = Len(local[r].parsedRows)
            /\ \A i \in 1..Len(local[r].parsedRows) :
                  /\ outcome[r].previewRows[i].sku = local[r].parsedRows[i].sku
                  /\ outcome[r].previewRows[i].quantityRequested =
                        local[r].parsedRows[i].quantityRequested
            /\ InGridOrder(local[r].parsedRows, local[r].rows)

\* A sheet whose quantity column comes first and whose second data row was
\* skipped was previewed: the first and third data rows came out, in order.
C17_Witness ==
    \E r \in Slots :
        /\ outcome[r].mode = "preview"
        /\ local[r].rows = GridQtyFirst
        /\ Len(outcome[r].previewRows) = 2
        /\ outcome[r].previewRows[1].sku = "ABC123"
        /\ outcome[r].previewRows[1].quantityRequested = 3
        /\ outcome[r].previewRows[2].sku = "XYZ999"
        /\ outcome[r].previewRows[2].quantityRequested = 1

\* C18: a Confirm that returns the nothing-to-order error has issued no
\* external call: none to the admin API (business-account context, shop id),
\* none to the order-creation service, none to the history store.
C18_NothingToOrderBeforeCalls ==
    \A r \in Slots :
        /\ local[r].intent = "create"
        /\ outcome[r].mode = "error"
        /\ outcome[r].error = ErrNothingToOrder
        => /\ local[r].adminCalls = 0
           /\ OcCallsOf(local[r].rid) = {}
           /\ DbWritesOf(local[r].rid) = {}

\* C19: Confirm takes the snapshot as it is.  A create request issues no
\* catalog lookup, and each line item it submits carries the variantId and
\* the fulfilledQuantity written in the snapshot row it stands for, also when
\* that quantity is more than the row's availableQuantity.
C19_SnapshotAuthoritative ==
    \A r \in Slots :
        local[r].intent = "create" =>
            /\ pc[r] # "lookup"
            /\ local[r].lookups = <<>>
            /\ local[r].enrichedRows = <<>>
            /\ \A i \in OcCallsOf(local[r].rid) :
                  ocLog[i].body.lineItems =
                      LET included == SelectSeq(Snapshot(r), Includable)
                      IN  [k \in 1..Len(included) |->
                              [quantity |-> included[k].fulfilledQuantity.n,
                               variantId |-> included[k].variantId]]

\* A snapshot row promising 5 units of a variant with 3 available was
\* submitted as given.
C19_Witness ==
    \E r \in Slots :
        /\ local[r].intent = "create"
        /\ Len(Snapshot(r)) = 1
        /\ Snapshot(r)[1].availableQuantity = 3
        /\ Snapshot(r)[1].fulfilledQuantity = JNum(5)
        /\ \E i \in OcCallsOf(local[r].rid) :
              ocLog[i].body.lineItems = <<[quantity |-> 5, variantId |-> JStr("v2")]>>

\* The text a grid cell shows: a string as it is, a number in decimal, a
\* boolean as the sheet prints it, nothing for an empty cell.
CellText(cell) ==
    CASE cell.k = "null" -> ""
      [] cell.k = "str"  -> cell.s
      [] cell.k = "num"  -> ToString(cell.n)
      [] cell.k = "bool" -> IF cell.b THEN "TRUE" ELSE "FALSE"

\* The two constraints on a data row: a sku cell that is not blank after
\* trimming, a quantity cell that converts to a positive finite number.
SatisfiesConstraints(row, skuIndex, qtyIndex) ==
    /\ Trim(CellText(Cell(row, skuIndex))) # ""
    /\ ~Number(Cell(row, qtyIndex)).nan
    /\ Number(Cell(row, qtyIndex)).n > 0

\* The data rows of a grid that satisfy both constraints, in grid order.
ConstrainedRows(rows) ==
    LET Ok(row) == SatisfiesConstraints(row, SkuIndex(rows), QtyIndex(rows))
    IN  SelectSeq(SubSeq(rows, 2, Len(rows)), Ok)

\* C20: the candidate rows of a parsed grid are the data rows whose sku cell
\* is not blank after trimming and whose quantity cell converts to a positive
\* finite number, all of them and no others, in grid order; the other rows
\* are skipped without an error and never reach a catalog lookup.  The sheet
\* (ABC123,5), (blank,3), (XYZ999,-1), (DEF000,0), (GHI111,2) gives
\* (ABC123,5), (GHI111,2).
C20_ParsingKeeps ==
    \A r \in Slots :
        /\ local[r].intent = "process"
        /\ \/ pc[r] = "lookup"
           \/ outcome[r].mode = "preview"
           \/ outcome[r].error = ErrNoValidRows
        => LET rows == local[r].rows
               parsed == local[r].parsedRows
               kept == ConstrainedRows(rows)
           IN  /\ Len(parsed) = Len(kept)
               /\ \A i \in 1..Len(parsed) :
                     /\ i <= Len(kept)
                     /\ parsed[i].sku = Trim(CellText(Cell(kept[i], SkuIndex(rows))))
                     /\ Num(parsed[i].quantityRequested) = Number(Cell(kept[i], QtyIndex(rows)))
               /\ \A i \in 1..Len(local[r].enrichedRows) :
                     /\ local[r].enrichedRows[i].sku # ""
                     /\ local[r].enrichedRows[i].quantityRequested > 0
               /\ rows = GridExample =>
                     [i \in 1..Len(parsed) |-> <<parsed[i].sku, parsed[i].quantityRequested>>]
                         = << <<"ABC123", 5>>, <<"GHI111", 2>> >>

\* What a process request was given, read off its locals: a customer name or
\* id that is blank, no uploaded file, a decoded grid, a header row with both
\* columns, a data row that the parse loop keeps.
BlankCustomer(r) == local[r].customerName = "" \/ local[r].customerId = ""

NoFile(r) == local[r].fileKind \in {"missing", "string"}

HasGrid(r) == ~BlankCustomer(r) /\ local[r].fileKind = "grid"

ValidHeader(r) ==
    /\ HasGrid(r)
    /\ Len(local[r].rows) > 0
    /\ \E i \in 1..Len(local[r].rows[1]) : HeaderRow(local[r].rows)[i] = "sku"
    /\ \E i \in 1..Len(local[r].rows[1]) : HeaderRow(local[r].rows)[i] \in {"quantity", "qty"}

SomeRowSurvives(r) ==
    \E i \in 2..Len(local[r].rows) :
        KeepsRow(local[r].rows[i], SkuIndex(local[r].rows), QtyIndex(local[r].rows))

\* C21: a process request that fails validation returns an error outcome
\* with empty previewRows and has issued no catalog lookup.  The error is the
\* required-fields one exactly for a blank customer name or id or a missing
\* file, the empty-file one exactly for a grid of zero rows, the
\* missing-columns one exactly for a grid whose header lacks a column, and the
\* no-valid-rows one exactly when the header is valid and no data row
\* survives parsing.
C21_ValidationFailures ==
    \A r \in Slots :
        local[r].intent = "process" =>
            /\ outcome[r].mode = "error" =>
                  /\ outcome[r].previewRows = <<>>
                  /\ local[r].lookups = <<>>
                  /\ local[r].enrichedRows = <<>>
                  /\ outcome[r].error \in
                        {ErrRequired, ErrUnreadable, ErrEmptyFile, ErrMissingColumns, ErrNoValidRows}
            /\ outcome[r].error = ErrRequired <=> BlankCustomer(r) \/ NoFile(r)
            /\ outcome[r].error = ErrEmptyFile <=> HasGrid(r) /\ Len(local[r].rows) = 0
            /\ outcome[r].error = ErrMissingColumns <=>
                  HasGrid(r) /\ Len(local[r].rows) > 0 /\ ~ValidHeader(r)
            /\ outcome[r].error = ErrNoValidRows <=> ValidHeader(r) /\ ~SomeRowSurvives(r)

\* A sheet with a valid header and two data rows, one with a blank sku and one
\* with quantity 0, was refused with the no-valid-rows error.
C21_Witness ==
    \E r \in Slots :
        /\ local[r].intent = "process"
        /\ local[r].rows = GridNoValidRows
        /\ pc[r] = "done"
        /\ outcome[r] = ErrorOutcome(ErrNoValidRows, "Acme", "42", <<>>)
        /\ local[r].lookups = <<>>

\* C22: every request, whatever its form input and whatever the external
\* services do, ends by returning one of the typed outcomes: a preview, an
\* error, the success redirect or idle; none ends in an exception.
C22_TypedOutcome ==
    \A r \in Slots :
        pc[r] = "done" => outcome[r].mode \in {"preview", "error", "redirect", "idle"}

\* The history records of the writes that went through, in the order written.
RECURSIVE SavedData(_, _)
SavedData(log, i) ==
    IF i > Len(log) THEN <<>>
    ELSE IF log[i].saved THEN <<log[i].data>> \o SavedData(log, i + 1)
         ELSE SavedData(log, i + 1)

\* The request body a create request must send, from its own form fields,
\* its own snapshot and the context its own lookups resolved.
OwnBody(r) ==
    LET included == SelectSeq(Snapshot(r), Includable)
        lineItems == [k \in 1..Len(included) |->
                         [quantity |-> included[k].fulfilledQuantity.n,
                          variantId |-> included[k].variantId]]
    IN  [shop_id |-> local[r].shopNumericId,
         customerId |-> local[r].customerId,
         customerName |-> local[r].customerName,
         lineItems |-> lineItems,
         note |-> Note(local[r].customerName, CustomerNumericId(local[r].customerId)),
         totalQuantity |-> SumQuantities(lineItems, 1),
         companyId |-> local[r].b2b.companyId,
         companyLocationId |-> local[r].b2b.companyLocationId,
         companyContactId |-> local[r].b2b.companyContactId]

\* C23: concurrent Confirms do not interfere.  In every interleaving of two
\* requests, the order request a create request sends is made of its own form
\* fields, snapshot and context; its history record carries its own customer
\* and the order its own call returned; its outcome is the redirect to that
\* order or an error with its own snapshot; and the history holds one record
\* for every write that went through, none replaced or dropped.
C23_NoInterference ==
    /\ history = SavedData(dbLog, 1)
    /\ \A r \in Slots :
          local[r].intent = "create" =>
              /\ Cardinality(OcCallsOf(local[r].rid)) <= 1
              /\ Cardinality(DbWritesOf(local[r].rid)) <= 1
              /\ \A i \in OcCallsOf(local[r].rid) :
                    /\ ocLog[i].body = OwnBody(r)
                    /\ \A k \in DbWritesOf(local[r].rid) :
                          /\ Succeeded(ocLog[i].reply)
                          /\ dbLog[k].data.customerName = local[r].customerName
                          /\ dbLog[k].data.customerId = CustomerNumericId(local[r].customerId)
                          /\ dbLog[k].data.orderId = ocLog[i].reply.draftOrder.id
                          /\ dbLog[k].data.totalQuantity = ocLog[i].body.totalQuantity
                    /\ outcome[r].mode = "redirect" =>
                          outcome[r].location =
                              "/app?createdOrderName=" \o LabelParam(ocLog[i].reply.draftOrder)
              /\ outcome[r].mode = "error" =>
                    /\ outcome[r].previewRows = Snapshot(r)
                    /\ outcome[r].customerName = local[r].customerName
                    /\ outcome[r].customerId = local[r].customerId

\* Two Confirms for different customers with different snapshots ran
\* interleaved: request 1 called the order service first, request 2 wrote its
\* history record first, and both records are in the history.
C23_Witness ==
    /\ Len(ocLog) = 2 /\ ocLog[1].rid = 1 /\ ocLog[2].rid = 2
    /\ Len(dbLog) = 2 /\ dbLog[1].rid = 2 /\ dbLog[2].rid = 1
    /\ Len(history) = 2
    /\ history[1].customerName # history[2].customerName
    /\ ocLog[1].body.lineItems # ocLog[2].body.lineItems
    /\ \A r \in Slots : pc[r] = "done" /\ outcome[r].mode = "redirect"

\* C24: Confirm is not deduplicated.  Every create request with an includable
\* row that has got past its order-creation call has issued one call of its
\* own, also when an earlier request sent the same body and succeeded; and
\* every one whose call succeeded and that has returned has attempted one
\* history write of its own.
C24_NotDeduplicated ==
    \A r \in Slots :
        /\ local[r].intent = "create"
        /\ local[r].includedRows # <<>>
        /\ pc[r] \in {"dbwrite", "done"}
        => /\ Cardinality(OcCallsOf(local[r].rid)) = 1
           /\ \A i \in OcCallsOf(local[r].rid) :
                 Succeeded(ocLog[i].reply) /\ pc[r] = "done" =>
                     /\ Cardinality(DbWritesOf(local[r].rid)) = 1
                     /\ \A k \in DbWritesOf(local[r].rid) :
                           dbLog[k].saved =>
                               \E j \in DOMAIN history : history[j] = dbLog[k].data

\* The same snapshot was confirmed twice for the same customer: two calls
\* with the same body, both answered with success, two created orders and
\* two history records.
C24_Witness ==
    /\ Len(ocLog) = 2
    /\ ocLog[1].rid # ocLog[2].rid
    /\ ocLog[1].body = ocLog[2].body
    /\ Succeeded(ocLog[1].reply) /\ Succeeded(ocLog[2].reply)
    /\ Len(history) = 2
    /\ history[1].orderId # history[2].orderId
    /\ history[1].customerId = history[2].customerId
    /\ history[1].totalQuantity = history[2].totalQuantity

\* A header cell after trimming and lower-casing.
Normalised(cell) == ToLowerCase(Trim(CellText(cell)))

\* The columns of a grid whose header cell is the sku word, and those whose
\* header cell is one of the two quantity words.
SkuColumns(rows) == { i \in 1..Len(rows[1]) : Normalised(rows[1][i]) = "sku" }

QtyColumns(rows) == { i \in 1..Len(rows[1]) : Normalised(rows[1][i]) \in {"quantity", "qty"} }

\* C25: for a grid with a header row, the request fails with the
\* missing-columns error exactly when no header cell equals "sku" or none
\* equals "quantity" or "qty" after trimming and lower-casing; a cell that
\* only contains such a word does not count; otherwise the candidate rows
\* are read from the first sku column and the first quantity column.
C25_HeaderLookup ==
    \A r \in Slots :
        local[r].intent = "process" /\ HasGrid(r) /\ Len(local[r].rows) > 0 =>
            LET rows == local[r].rows
                located == SkuColumns(rows) # {} /\ QtyColumns(rows) # {}
            IN  /\ outcome[r].error = ErrMissingColumns <=> ~located
                /\ (\E i \in 1..Len(rows[1]) : rows[1][i] \in {JStr("SKU Code"), JStr("Order Qty")})
                   /\ Cardinality(SkuColumns(rows) \cup QtyColumns(rows)) < 2
                   => outcome[r].error = ErrMissingColumns
                /\ located =>
                      LET s == CHOOSE i \in SkuColumns(rows) : \A j \in SkuColumns(rows) : i <= j
                          q == CHOOSE i \in QtyColumns(rows) : \A j \in QtyColumns(rows) : i <= j
                      IN  \A k \in 1..Len(local[r].parsedRows) :
                              \E d \in 2..Len(rows) :
                                  /\ local[r].parsedRows[k].sku = Trim(CellText(rows[d][s]))
                                  /\ Num(local[r].parsedRows[k].quantityRequested) = Number(rows[d][q])

\* A sheet naming each column twice was previewed: its row was read from the
\* first quantity column and the first sku column.
C25_Witness ==
    \E r \in Slots :
        /\ local[r].rows = GridTwoMatches
        /\ outcome[r].mode = "preview"
        /\ Len(outcome[r].previewRows) = 1
        /\ outcome[r].previewRows[1].sku = "ABC123"
        /\ outcome[r].previewRows[1].quantityRequested = 1

\* The 'available' quantity one returned location reports: the number in its
\* entry named "available", 0 when the node is missing, when it has no such
\* entry or when the entry's quantity is no number.
ReportedAvailable(edge) ==
    IF /\ edge.node
       /\ \E k \in 1..Len(edge.quantities) :
             edge.quantities[k].name = "available" /\ edge.quantities[k].quantity.k = "num"
    THEN LET k == CHOOSE k \in 1..Len(edge.quantities) : edge.quantities[k].name = "available"
         IN  edge.quantities[k].quantity.n
    ELSE 0

\* The sum of what the first n locations report.
RECURSIVE SumReported(_, _)
SumReported(levelEdges, n) ==
    IF n = 0 THEN 0 ELSE SumReported(levelEdges, n - 1) + ReportedAvailable(levelEdges[n])

\* C26: the availableQuantity of a matched row is the sum of the 'available'
\* quantities over all locations the catalog returned for its entry, a
\* location without a node, without an 'available' entry or with a
\* non-numeric quantity adding 0; an entry with no location has
\* availableQuantity 0 and status "no stock".
C26_TotalAvailable ==
    \A r \in Slots : \A i \in MatchedAt(r) :
        LET levelEdges == local[r].edges[i][1].levelEdges
            row == local[r].enrichedRows[i]
        IN  /\ row.availableQuantity = SumReported(levelEdges, Len(levelEdges))
            /\ Len(levelEdges) = 0 =>
                  row.availableQuantity = 0 /\ row.status = "no stock"

\* A preview was returned whose rows were matched to an entry with locations
\* reporting 1, nothing (no node) and 4, to an entry with no location, and to
\* an entry with locations reporting -1, no entry and a null quantity.
C26_Witness ==
    \E r \in Slots :
        /\ outcome[r].mode = "preview"
        /\ local[r].lookups = <<"match", "match", "match">>
        /\ [i \in 1..3 |-> Len(local[r].edges[i][1].levelEdges)] = <<3, 0, 3>>
        /\ [i \in 1..3 |-> outcome[r].previewRows[i].availableQuantity] = <<5, 0, -1>>

\* C27: Preview sends one catalog lookup per candidate row, in row order,
\* with at most one outstanding: the lookup of a row is sent only when the
\* lookups of all rows before it have been answered or have failed and their
\* rows have been appended, and a returned preview has sent exactly one per
\* candidate row.
C27_SequentialLookups ==
    \A r \in Slots :
        local[r].intent = "process" =>
            LET l == local[r]
                outstanding == Len(l.queries) - Len(l.lookups)
            IN  /\ outstanding \in {0, 1}
                /\ outstanding = 1 <=> pc[r] = "lookup"
                /\ Len(l.queries) <= Len(l.parsedRows)
                /\ \A i \in 1..Len(l.queries) : l.queries[i] = l.parsedRows[i].sku
                /\ Len(l.enrichedRows) = Len(l.lookups)
                /\ outcome[r].mode = "preview" => Len(l.queries) = Len(l.parsedRows)

\* The second of three lookups is outstanding: the first row has been
\* appended and the third row's lookup has not been sent.
C27_Witness ==
    \E r \in Slots :
        /\ pc[r] = "lookup"
        /\ Len(local[r].parsedRows) = 3
        /\ local[r].queries = <<"ABC123", "XYZ999">>
        /\ Len(local[r].lookups) = 1
        /\ Len(local[r].enrichedRows) = 1

\* The row that reconciling one candidate row must give, from that row and
\* the answer to its own lookup alone.
OwnReconciled(row, kind, edges) ==
    IF kind = "match"
    THEN LET available == SumReported(edges[1].levelEdges, Len(edges[1].levelEdges))
             fulfilled == IF available <= 0 THEN 0 ELSE Min(row.quantityRequested, available)
         IN  [sku |-> row.sku, quantityRequested |-> row.quantityRequested,
              exist |-> JBool(TRUE), availableQuantity |-> available,
              fulfilledQuantity |-> JNum(fulfilled), variantId |-> edges[1].id]
    ELSE [sku |-> row.sku, quantityRequested |-> row.quantityRequested,
          exist |-> JBool(FALSE), availableQuantity |-> 0,
          fulfilledQuantity |-> JNum(0), variantId |-> JNull]

\* C28: rows are reconciled independently.  The sku, quantityRequested,
\* exist, availableQuantity, fulfilledQuantity and variantId of every
\* reconciled row follow from its own candidate row and the answer to its own
\* lookup, whatever the other rows are; two rows asking for the same SKU are
\* each fulfilled against the whole available quantity.
C28_RowsIndependent ==
    \A r \in Slots :
        local[r].intent = "process" =>
            \A i \in 1..Len(local[r].enrichedRows) :
                LET row == local[r].enrichedRows[i]
                IN  [sku |-> row.sku, quantityRequested |-> row.quantityRequested,
                     exist |-> row.exist, availableQuantity |-> row.availableQuantity,
                     fulfilledQuantity |-> row.fulfilledQuantity, variantId |-> row.variantId]
                    = OwnReconciled(local[r].parsedRows[i], local[r].lookups[i], local[r].edges[i])

\* Two rows asked for 2 units each of the same SKU, of which 2 are available:
\* the preview promises 2 to each, 4 in all.
C28_Witness ==
    \E r \in Slots :
        /\ outcome[r].mode = "preview"
        /\ Len(outcome[r].previewRows) = 2
        /\ outcome[r].previewRows[1].sku = outcome[r].previewRows[2].sku
        /\ outcome[r].previewRows[1].variantId = outcome[r].previewRows[2].variantId
        /\ outcome[r].previewRows[1].availableQuantity = 2
        /\ outcome[r].previewRows[2].availableQuantity = 2
        /\ outcome[r].previewRows[1].fulfilledQuantity.n + outcome[r].previewRows[2].fulfilledQuantity.n = 4

\* C29: the status "pending" given to a row at parse time is in no row of a
\* preview returned: whichever branch of the loop body a row went through,
\* its status is one of "ok", "partial", "no stock", "sku not found", "error".
C29_NoPendingStatus ==
    \A r \in Slots :
        /\ \A i \in 1..Len(local[r].enrichedRows) :
              local[r].enrichedRows[i].status
                  \in {"ok", "partial", "no stock", "sku not found", "error"}
        /\ outcome[r].mode = "preview" =>
              /\ outcome[r].previewRows # <<>>
              /\ \A i \in 1..Len(outcome[r].previewRows) :
                    /\ outcome[r].previewRows[i].status # "pending"
                    /\ outcome[r].previewRows[i].status
                          \in {"ok", "partial", "no stock", "sku not found", "error"}

\* Three rows parsed as "pending" came back as not found, failed and ok.
C29_Witness ==
    \E r \in Slots :
        /\ outcome[r].mode = "preview"
        /\ Len(local[r].parsedRows) = 3
        /\ [i \in 1..3 |-> local[r].parsedRows[i].status] = <<"pending", "pending", "pending">>
        /\ [i \in 1..3 |-> outcome[r].previewRows[i].status] = <<"sku not found", "error", "ok">>

\* C30: Confirm validates neither the customer nor the resolved context.  A
\* create request with an includable row that has got past its context
\* lookups is at its order-creation call or has issued it, whatever its
\* customerId, shop id and business-account context are; the body carries
\* them as they are (shop_id null when unresolved, the three context ids
\* null when the lookup failed or was skipped); and it returns an error only
\* when that call did not succeed.
C30_NoContextValidation ==
    \A r \in Slots :
        /\ CarriesSnapshot(r)
        /\ SelectSeq(Snapshot(r), Includable) # <<>>
        /\ pc[r] \in {"fetch", "dbwrite", "done"}
        => /\ pc[r] = "fetch" <=> OcCallsOf(local[r].rid) = {}
           /\ \A i \in OcCallsOf(local[r].rid) :
                 /\ ocLog[i].body.customerId = local[r].customerId
                 /\ ocLog[i].body.customerName = local[r].customerName
                 /\ ocLog[i].body.shop_id = local[r].shopNumericId
                 /\ <<ocLog[i].body.companyId, ocLog[i].body.companyLocationId,
                      ocLog[i].body.companyContactId>>
                        = <<local[r].b2b.companyId, local[r].b2b.companyLocationId,
                            local[r].b2b.companyContactId>>
                 /\ local[r].customerId = "" => local[r].b2b = NoB2BContext
                 /\ outcome[r].mode = "error" => ~Succeeded(ocLog[i].reply)
           /\ outcome[r].mode \in {"none", "error", "redirect"}

\* A Confirm with no customer, an unresolved shop id and no business-account
\* context sent its order request, with the default customer name and nulls,
\* and returned the success redirect.
C30_Witness ==
    \E r \in Slots :
        /\ outcome[r].mode = "redirect"
        /\ \E i \in OcCallsOf(local[r].rid) :
              /\ ocLog[i].body.customerId = ""
              /\ ocLog[i].body.customerName = "Unknown Customer"
              /\ ocLog[i].body.shop_id = JNull
              /\ ocLog[i].body.companyId = JNull
              /\ ocLog[i].body.companyLocationId = JNull
              /\ ocLog[i].body.companyContactId = JNull

====
